---- MODULE Spec2Model ----
(***************************************************************************)
(* Timeline segment editor of the desktop app: the caption track           *)
(* (CaptionTrack.tsx) and the scene track (SceneTrack.tsx).                *)
(*                                                                         *)
(* Time is counted in tenths of a second, so the minimum duration 0.1 s    *)
(* of the source is 1 and the default duration 2 s is 20.  Pixels are      *)
(* integers; secsPerPixel is a whole number of tenths of a second per      *)
(* pixel.  transform.position is 0 and every segment is taken to lie       *)
(* inside the viewport, so its view is mounted and receives pointer        *)
(* events; a pointer-down lands on a segment only at an x inside it.       *)
(* The layout of a segment's element (left, width, visibility) is          *)
(* modelled apart, in seconds and on JavaScript numbers, for any           *)
(* transform.position and secsPerPixel.                                    *)
(***************************************************************************)
EXTENDS Integers, Sequences, FiniteSets, TLC

\* ------------------------------------------------------------------ bounds
MaxSegments == 2        \* segments per collection
MaxTimers == 3          \* refresh timers pending at the same time
MaxDowns == 2           \* pointer-downs that start a gesture, per run
MaxMoves == 2           \* pointer-move events delivered to a gesture, per run
MaxEvents == 3          \* other user events (clicks, keys, input, add, seek, zoom), per run

\* ------------------------------------------------------- program constants
MinDuration == 1        \* 0.1 s
DefaultDuration == 20   \* 2 s
edgeThreshold == 10     \* px, SceneTrack resize zone
HandleWidth == 8        \* px, CaptionSegment resize handles (w-2)
TrackWidth == 90        \* px, width of the host track
FPS == 60               \* frames per second of the project
OUTPUT_SIZE == [x |-> 1920, y |-> 1080]

Max(a, b) == IF a >= b THEN a ELSE b
Min(a, b) == IF a <= b THEN a ELSE b

Keys == 1..MaxSegments
PointerSteps == {-60, 60}
PlayheadTimes == {0, 90}
Zooms == {90, 180}
TypedTexts == {"typed"}
ClockIds == {"caption-1000", "caption-1001"}
ButtonModes == {"hideCamera"}

VARIABLES
    captions,       \* project.captions.segments: <<[key, id, start, end, text]>>
    sceneSegments,  \* project.timeline.sceneSegments: <<[key, start, end, mode]>>
    available,      \* project.captions and project.timeline are there
    selection,      \* editorState.timeline.selection
    playbackTime,   \* editorState.playbackTime
    zoom,           \* editorState.timeline.transform.zoom
    view,           \* per CaptionSegment component: isDragging, isEditing, editText
    docListeners,   \* caption gestures: the mousemove/mouseup pairs on document
    dragState,      \* SceneTrack's dragState
    winListeners,   \* scene gestures: the mousemove/mouseup pairs on window
    trackListeners, \* mouseup listeners on the scene track element
    mouseX,         \* clientX of the pointer as last seen by an attached gesture
    pending,        \* refresh timers scheduled and not yet fired
    emitted,        \* the last events.renderFrameEvent.emit payload
    dirty,          \* a collection was written and no redraw was emitted since
    gesture,        \* the gesture in progress or just completed, the refresh
                    \* timers scheduled on its account, whether its caption
                    \* was the selection at the mousedown and whether a
                    \* mousemove reached it; forgotten at the next user event
                    \* that is not part of it
    budget,         \* pointer-downs, pointer-moves and other user events still to come
    lastKey,        \* where the last key event ended: "none" before the first one,
                    \* "captured" when a text input stopped it, "global" when
                    \* it reached the global shortcut handlers
    layout,         \* the element laid out last: its segment, transform.position
                    \* and secsPerPixel, its left and width in pixels and the
                    \* time its left edge converts back to
    reported,       \* the state last passed to props.onDragStateChanged and
                    \* whether the state passed before it was idle
    exporter        \* CaptionExport: isExporting, exportingFormat, the export
                    \* calls waiting for the save dialog or the backend, and
                    \* the last toast

editor == <<captions, sceneSegments, available, selection, playbackTime, zoom, view,
            docListeners, dragState, winListeners, trackListeners, mouseX, pending,
            emitted, dirty, gesture, budget>>
vars == <<editor, lastKey, layout, reported, exporter>>

store == <<captions, sceneSegments, available>>
transform == <<playbackTime, zoom>>
sessions == <<docListeners, dragState, winListeners, trackListeners, mouseX>>

\* ----------------------------------------------------------------- helpers
NoSelection == [type |-> "none", id |-> "", index |-> 0]
CaptionSelection(id) == [type |-> "caption", id |-> id, index |-> 0]
SceneSelection(i) == [type |-> "scene", id |-> "", index |-> i]

IdleDrag == [type |-> "idle", index |-> 0, startMouseX |-> 0,
             startSegment |-> [start |-> 0, end |-> 0]]

\* CaptionExport after construction
IdleExporter == [isExporting |-> FALSE, exportingFormat |-> "null", calls |-> <<>>,
                 toast |-> [kind |-> "none", format |-> "null"]]

\* onDragStateChanged was not called yet
NoReport == [state |-> [type |-> "none", index |-> 0, startMouseX |-> 0,
                        startSegment |-> [start |-> 0, end |-> 0]],
             before |-> "none"]

\* props.onDragStateChanged?.(dragState)
onDragStateChanged(r, state) ==
    [state |-> state,
     before |-> IF r.state.type \in {"none", "idle"} THEN r.state.type ELSE "gesture"]

NoGesture == [phase |-> "none", track |-> "none", key |-> 0, refreshes |-> 0,
              wasSelected |-> FALSE, moved |-> FALSE]

\* no redraw was requested yet
NoRequest == [frame_number |-> -1, fps |-> 0, resolution_base |-> [x |-> 0, y |-> 0]]

\* the payload of events.renderFrameEvent.emit when the playhead is at time t:
\* Math.floor(editorState.playbackTime * FPS) of t tenths of a second
RenderRequest(t) ==
    [frame_number |-> (t * FPS) \div 10, fps |-> FPS, resolution_base |-> OUTPUT_SIZE]

IdleView == [isDragging |-> "null", isEditing |-> FALSE, editText |-> ""]

secsPerPixel == zoom \div TrackWidth

\* findIndex(s => s.id === id): the first index with that id, 0 when there is none
RECURSIVE FindFrom(_, _, _)
FindFrom(segs, id, i) ==
    IF i > Len(segs) THEN 0
    ELSE IF segs[i].id = id THEN i ELSE FindFrom(segs, id, i + 1)
findIndex(segs, id) == FindFrom(segs, id, 1)

\* index(): the position of the object with that key
RECURSIVE KeyFrom(_, _, _)
KeyFrom(segs, k, i) ==
    IF i > Len(segs) THEN 0
    ELSE IF segs[i].key = k THEN i ELSE KeyFrom(segs, k, i + 1)
indexOf(segs, k) == KeyFrom(segs, k, 1)

\* Array.prototype.sort((a, b) => a.start - b.start): stable
RECURSIVE InsertByStart(_, _)
InsertByStart(sorted, s) ==
    IF sorted = <<>> THEN <<s>>
    ELSE IF s.start < Head(sorted).start THEN <<s>> \o sorted
    ELSE <<Head(sorted)>> \o InsertByStart(Tail(sorted), s)
RECURSIVE SortFrom(_, _)
SortFrom(segs, acc) ==
    IF segs = <<>> THEN acc
    ELSE SortFrom(Tail(segs), InsertByStart(acc, Head(segs)))
sortByStart(segs) == SortFrom(segs, <<>>)

Sorted(segs) == \A i \in 1..(Len(segs) - 1) : segs[i].start <= segs[i + 1].start

isSelected(seg) == selection.type = "caption" /\ selection.id = seg.id

\* A variant of RunEffects without the effect that stops editing when the
\* segment is deselected.
RunEffectsKeepsEditing(v, segs, sel) ==
    [k \in Keys |->
        LET i == indexOf(segs, k) IN
        IF i = 0 THEN v[k]
        ELSE [v[k] EXCEPT !.editText = IF v[k].isEditing THEN @ ELSE segs[i].text]]

\* The two effects of CaptionSegment, run to their fixed point:
\* editing stops when the segment is not selected, and editText follows the
\* stored text while the view is not editing.
RunEffects(v, segs, sel) ==
    [k \in Keys |->
        LET i == indexOf(segs, k) IN
        IF i = 0 THEN v[k]
        ELSE LET sl == sel.type = "caption" /\ sel.id = segs[i].id
                 ed == v[k].isEditing /\ sl
             IN [v[k] EXCEPT !.isEditing = ed,
                             !.editText = IF ed THEN @ ELSE segs[i].text]]

\* ------------------------------------------------------------ CaptionTrack
\* A caption gesture's closure: the component (key), props.segment.id, the
\* handle that was pressed, e.clientX and the copy of props.segment.
CaptionListener(seg, type, x) ==
    [key |-> seg.key, id |-> seg.id, type |-> type, startPos |-> x,
     startSegment |-> [start |-> seg.start, end |-> seg.end]]

\* The element of a CaptionSegment under the pointer: the two 8px handles lie
\* over the body, the end handle over the start handle.
CaptionHit(seg, x) ==
    LET rel == x * secsPerPixel - seg.start
        w == seg.end - seg.start
    IN IF rel > w - HandleWidth * secsPerPixel THEN "end"
       ELSE IF rel < HandleWidth * secsPerPixel THEN "start"
       ELSE "move"

\* The x at which a pointer-down can land on a segment: at its left edge, its
\* middle and its right edge while no gesture is attached, and at the pointer's
\* place while one is.  An element of no width receives no pointer event.
Inside(seg, x) ==
    /\ seg.start < seg.end
    /\ seg.start <= x * secsPerPixel /\ x * secsPerPixel <= seg.end
DownXs(seg) ==
    IF docListeners = <<>> /\ winListeners = <<>>
    THEN {x \in { (seg.start + secsPerPixel - 1) \div secsPerPixel,
                  (seg.start + seg.end) \div (2 * secsPerPixel),
                  seg.end \div secsPerPixel } : Inside(seg, x)}
    ELSE {x \in {mouseX} : Inside(seg, x)}
DownCandidates(segs) == UNION {DownXs(segs[i]) : i \in 1..Len(segs)}

\* A variant of handleMouseMove that shifts the live values of the segment
\* instead of those of the gesture's snapshot.
handleMouseMoveFromLive(l, x, segs) ==
    LET delta == (x - l.startPos) * secsPerPixel
        segmentIndex == findIndex(segs, l.id)
        live == segs[segmentIndex]
    IN IF ~available \/ segmentIndex = 0 THEN segs
       ELSE IF l.type = "start" THEN
            LET newStart == Max(0, Min(live.start + delta, live.end - MinDuration))
            IN [segs EXCEPT ![segmentIndex].start = newStart]
       ELSE IF l.type = "end" THEN
            LET newEnd == Max(live.start + MinDuration, live.end + delta)
            IN [segs EXCEPT ![segmentIndex].end = newEnd]
       ELSE LET duration == live.end - live.start
                newStart == Max(0, live.start + delta)
            IN [segs EXCEPT ![segmentIndex].start = newStart,
                            ![segmentIndex].end = newStart + duration]

\* handleMouseMove of one caption gesture, applied to the collection
handleMouseMove(l, x, segs) ==
    LET delta == (x - l.startPos) * secsPerPixel
        segmentIndex == findIndex(segs, l.id)
        startSegment == l.startSegment
    IN IF ~available \/ segmentIndex = 0 THEN segs
       ELSE IF l.type = "start" THEN
            LET newStart == Max(0, Min(startSegment.start + delta,
                                       startSegment.end - MinDuration))
            IN [segs EXCEPT ![segmentIndex].start = newStart]
       ELSE IF l.type = "end" THEN
            LET newEnd == Max(startSegment.start + MinDuration, startSegment.end + delta)
            IN [segs EXCEPT ![segmentIndex].end = newEnd]
       ELSE LET duration == startSegment.end - startSegment.start
                newStart == Max(0, startSegment.start + delta)
            IN [segs EXCEPT ![segmentIndex].start = newStart,
                            ![segmentIndex].end = newStart + duration]

\* every mousemove listener on document, in the order they were attached
RECURSIVE DispatchCaptionMove(_, _, _)
DispatchCaptionMove(ls, x, segs) ==
    IF ls = <<>> THEN segs
    ELSE DispatchCaptionMove(Tail(ls), x, handleMouseMove(Head(ls), x, segs))

\* some handleMouseMove reaches setProject
CaptionMoveWrites(ls, segs) ==
    available /\ \E i \in 1..Len(ls) : findIndex(segs, ls[i].id) # 0

\* onSelect and setIsDragging of handleMouseDown: one refresh timer is scheduled
\* by onSelect
StartCaptionGesture(k, seg, type, x) ==
    /\ budget.downs > 0
    /\ pending < MaxTimers
    /\ selection' = CaptionSelection(seg.id)
    /\ pending' = pending + 1
    /\ view' = RunEffects([view EXCEPT ![k].isDragging = type],
                          captions, CaptionSelection(seg.id))
    /\ docListeners' = Append(docListeners, CaptionListener(seg, type, x))
    /\ mouseX' = x
    /\ gesture' = [phase |-> "down", track |-> "caption", key |-> k, refreshes |-> 1,
                   wasSelected |-> isSelected(seg), moved |-> FALSE]
    /\ budget' = [budget EXCEPT !.downs = @ - 1]
    /\ UNCHANGED <<exporter, reported, layout, lastKey, emitted, store, transform, dragState, winListeners, trackListeners, dirty>>

\* A variant of CaptionMouseDown without the return of handleMouseDown while
\* the view is editing.
CaptionMouseDownWhileEditing(k, x) ==
    /\ available
    /\ indexOf(captions, k) # 0
    /\ LET seg == captions[indexOf(captions, k)]
       IN /\ x \in DownXs(seg)
          /\ StartCaptionGesture(k, seg, CaptionHit(seg, x), x)

\* handleMouseDown(e, type) of the CaptionSegment with key k at clientX x
CaptionMouseDown(k, x) ==
    /\ available
    /\ indexOf(captions, k) # 0
    /\ LET seg == captions[indexOf(captions, k)]
       IN /\ x \in DownXs(seg)
          /\ IF view[k].isEditing
             THEN UNCHANGED vars
             ELSE StartCaptionGesture(k, seg, CaptionHit(seg, x), x)

\* onClick of the CaptionSegment with key k
CaptionClick(k) ==
    /\ indexOf(captions, k) # 0
    /\ LET seg == captions[indexOf(captions, k)]
           n == IF isSelected(seg) THEN 1 ELSE 2
           sel == IF isSelected(seg) THEN selection ELSE CaptionSelection(seg.id)
           v == IF isSelected(seg) /\ ~view[k].isEditing
                THEN [view EXCEPT ![k].isEditing = TRUE, ![k].editText = seg.text]
                ELSE view
       IN /\ pending + n <= MaxTimers
          /\ selection' = sel
          /\ view' = RunEffects(v, captions, sel)
          /\ pending' = pending + n
          /\ gesture' = IF gesture.phase = "up" /\ gesture.track = "caption"
                           /\ gesture.key = k
                        THEN [gesture EXCEPT !.phase = "clicked", !.refreshes = @ + n]
                        ELSE NoGesture
    /\ budget.events > 0
    /\ budget' = [budget EXCEPT !.events = @ - 1]
    /\ UNCHANGED <<exporter, reported, layout, lastKey, emitted, store, transform, sessions, dirty>>

\* handleDoubleClick
handleDoubleClick(k) ==
    /\ indexOf(captions, k) # 0
    /\ pending < MaxTimers
    /\ LET seg == captions[indexOf(captions, k)]
       IN view' = RunEffects([view EXCEPT ![k].isEditing = TRUE,
                                          ![k].editText = seg.text],
                             captions, selection)
    /\ pending' = pending + 1
    /\ gesture' = NoGesture
    /\ budget.events > 0
    /\ budget' = [budget EXCEPT !.events = @ - 1]
    /\ UNCHANGED <<exporter, reported, layout, lastKey, emitted, store, selection, transform, sessions, dirty>>

\* onInput of the text input
InputTyping(k, txt) ==
    /\ view[k].isEditing
    /\ pending < MaxTimers
    /\ view' = [view EXCEPT ![k].editText = txt]
    /\ pending' = pending + 1
    /\ gesture' = NoGesture
    /\ budget.events > 0
    /\ budget' = [budget EXCEPT !.events = @ - 1]
    /\ UNCHANGED <<exporter, reported, layout, lastKey, emitted, store, selection, transform, sessions, dirty>>

\* A variant of saveEdit that writes the text to every caption with the id of
\* the edited one.
saveEditAllMatches(k, n) ==
    LET me == captions[indexOf(captions, k)]
        segmentIndex == IF available THEN findIndex(captions, me.id) ELSE 0
        updatedSegments ==
            IF segmentIndex # 0
            THEN [i \in 1..Len(captions) |->
                     IF captions[i].id = me.id
                     THEN [captions[i] EXCEPT !.text = view[k].editText]
                     ELSE captions[i]]
            ELSE captions
        t == (IF segmentIndex # 0 THEN 1 ELSE 0) + n
    IN /\ pending + t <= MaxTimers
       /\ captions' = updatedSegments
       /\ dirty' = (dirty \/ segmentIndex # 0)
       /\ pending' = pending + t
       /\ view' = IF available
                  THEN RunEffects([view EXCEPT ![k].isEditing = FALSE],
                                  updatedSegments, selection)
                  ELSE view
       /\ gesture' = NoGesture
       /\ budget.events > 0
       /\ budget' = [budget EXCEPT !.events = @ - 1]
       /\ UNCHANGED <<exporter, reported, layout, emitted, sceneSegments, available, selection, transform, sessions>>

\* saveEdit of the component with key k, followed by n further refresh timers
\* of the calling handler; it returns at once when the collection is not there
saveEdit(k, n) ==
    LET me == captions[indexOf(captions, k)]
        segmentIndex == IF available THEN findIndex(captions, me.id) ELSE 0
        updatedSegments == IF segmentIndex # 0
                           THEN [captions EXCEPT ![segmentIndex].text = view[k].editText]
                           ELSE captions
        t == (IF segmentIndex # 0 THEN 1 ELSE 0) + n
    IN /\ pending + t <= MaxTimers
       /\ captions' = updatedSegments
       /\ dirty' = (dirty \/ segmentIndex # 0)
       /\ pending' = pending + t
       /\ view' = IF available
                  THEN RunEffects([view EXCEPT ![k].isEditing = FALSE],
                                  updatedSegments, selection)
                  ELSE view
       /\ gesture' = NoGesture
       /\ budget.events > 0
       /\ budget' = [budget EXCEPT !.events = @ - 1]
       /\ UNCHANGED <<exporter, reported, layout, emitted, sceneSegments, available, selection, transform, sessions>>

\* A variant of CancelEdit in which Escape also ends the drag of the segment:
\* what the editor would do if it had an abort-drag key.
CancelEditEndsDrag(k, blur) ==
    /\ pending < MaxTimers
    /\ view' = RunEffects([view EXCEPT ![k].isEditing = FALSE, ![k].isDragging = "null"],
                          captions, selection)
    /\ pending' = pending + 1
    /\ gesture' = NoGesture
    /\ budget.events > 0
    /\ budget' = [budget EXCEPT !.events = @ - 1]
    /\ UNCHANGED <<exporter, reported, layout, emitted, store, selection, transform, sessions, dirty>>

\* Escape in onKeyDown: setIsEditing(false) removes the focused input.  When
\* the browser delivers blur to the input as it is removed, onBlur runs
\* saveEdit before the effect that resets editText, so the buffer is written.
CancelEdit(k, blur) ==
    LET me == captions[indexOf(captions, k)]
        segmentIndex == findIndex(captions, me.id)
        wrote == blur /\ available /\ segmentIndex # 0
        updatedSegments == IF wrote
                           THEN [captions EXCEPT ![segmentIndex].text = view[k].editText]
                           ELSE captions
        t == 1 + (IF wrote THEN 1 ELSE 0) + (IF blur THEN 1 ELSE 0)
    IN /\ pending + t <= MaxTimers
       /\ captions' = updatedSegments
       /\ dirty' = (dirty \/ wrote)
       /\ view' = RunEffects([view EXCEPT ![k].isEditing = FALSE],
                             updatedSegments, selection)
       /\ pending' = pending + t
       /\ gesture' = NoGesture
       /\ budget.events > 0
       /\ budget' = [budget EXCEPT !.events = @ - 1]
       /\ UNCHANGED <<exporter, reported, layout, emitted, sceneSegments, available, selection, transform, sessions>>

\* onKeyDown of the text input: stopPropagation and stopImmediatePropagation
\* for every key, then Enter and Escape are acted upon; blur tells whether the browser delivers blur
\* to the input when the handler removes it (after Enter, onBlur then runs
\* saveEdit a second time on the text just written)
InputKeyDown(k, key, blur) ==
    /\ view[k].isEditing
    /\ lastKey' = "captured"
    /\ IF key = "Enter" THEN saveEdit(k, IF blur THEN 2 ELSE 0)
       ELSE IF key = "Escape" THEN CancelEdit(k, blur)
       ELSE UNCHANGED <<exporter, reported, layout, editor>>

\* A variant of InputKeyUp that lets the event go on to the global handlers.
InputKeyUpPropagates(k) ==
    /\ view[k].isEditing
    /\ lastKey' = "global"
    /\ UNCHANGED <<exporter, reported, layout, editor>>

\* onKeyUp of the text input: stopPropagation, stopImmediatePropagation
InputKeyUp(k) ==
    /\ view[k].isEditing
    /\ lastKey' = "captured"
    /\ UNCHANGED <<exporter, reported, layout, editor>>

\* onKeyPress of the text input: stopPropagation, stopImmediatePropagation
InputKeyPress(k) ==
    /\ view[k].isEditing
    /\ lastKey' = "captured"
    /\ UNCHANGED <<exporter, reported, layout, editor>>

\* onBlur of the text input
InputBlur(k) ==
    /\ view[k].isEditing
    /\ saveEdit(k, 1)
    /\ UNCHANGED lastKey

\* onFocus of the text input
InputFocus(k) ==
    /\ view[k].isEditing
    /\ pending < MaxTimers
    /\ pending' = pending + 1
    /\ gesture' = NoGesture
    /\ budget.events > 0
    /\ budget' = [budget EXCEPT !.events = @ - 1]
    /\ UNCHANGED <<exporter, reported, layout, lastKey, emitted, store, selection, transform, view, sessions, dirty>>

\* onMouseDown of the caption track element, reached by a pointer-down on
\* empty track area
CaptionTrackMouseDown ==
    /\ pending < MaxTimers
    /\ pending' = pending + 1
    /\ gesture' = NoGesture
    /\ budget.events > 0
    /\ budget' = [budget EXCEPT !.events = @ - 1]
    /\ UNCHANGED <<exporter, reported, layout, lastKey, emitted, store, selection, transform, view, sessions, dirty>>

\* onClick of the caption track element, reached by a click on empty track area
CaptionTrackClick ==
    /\ pending < MaxTimers
    /\ pending' = pending + 1
    /\ gesture' = NoGesture
    /\ budget.events > 0
    /\ budget' = [budget EXCEPT !.events = @ - 1]
    /\ UNCHANGED <<exporter, reported, layout, lastKey, emitted, store, selection, transform, view, sessions, dirty>>

\* A variant of handleAddCaption that emits the redraw inside the handler
\* instead of scheduling a timer for it.
handleAddCaptionEmitsInline(id) ==
    /\ Len(captions) < MaxSegments
    /\ LET time == playbackTime
           newSegment == [key |-> Len(captions) + 1, id |-> id, start |-> time,
                          end |-> time + DefaultDuration, text |-> "New caption"]
           segments == sortByStart(Append(captions, newSegment))
       IN /\ captions' = segments
          /\ selection' = CaptionSelection(id)
          /\ view' = RunEffects(view, segments, CaptionSelection(id))
    /\ emitted' = RenderRequest(playbackTime)
    /\ dirty' = FALSE
    /\ gesture' = NoGesture
    /\ budget.events > 0
    /\ budget' = [budget EXCEPT !.events = @ - 1]
    /\ UNCHANGED <<exporter, reported, layout, lastKey, sceneSegments, available, transform, sessions, pending>>

\* handleAddCaption, with Date.now() giving the id; it returns at once when
\* project.captions is not there
handleAddCaption(id) ==
    /\ available
    /\ Len(captions) < MaxSegments
    /\ pending < MaxTimers
    /\ LET time == playbackTime
           newSegment == [key |-> Len(captions) + 1, id |-> id, start |-> time,
                          end |-> time + DefaultDuration, text |-> "New caption"]
           segments == sortByStart(Append(captions, newSegment))
       IN /\ captions' = segments
          /\ selection' = CaptionSelection(id)
          /\ view' = RunEffects(view, segments, CaptionSelection(id))
    /\ pending' = pending + 1
    /\ dirty' = TRUE
    /\ gesture' = NoGesture
    /\ budget.events > 0
    /\ budget' = [budget EXCEPT !.events = @ - 1]
    /\ UNCHANGED <<exporter, reported, layout, lastKey, emitted, sceneSegments, available, transform, sessions>>

\* -------------------------------------------------------------- SceneTrack
\* A scene gesture's closure: the segment object (key), e.clientX and the copy
\* of the segment.  Once the segment has left the collection, index() and the
\* segment object keep their last values: disposed.
NotDisposed == [index |-> 0, start |-> 0, end |-> 0]
SceneListener(seg, x) ==
    [key |-> seg.key, startMouseX |-> x,
     startSegment |-> [start |-> seg.start, end |-> seg.end],
     disposed |-> NotDisposed]

\* A variant of SceneHit without the edge zone at the end boundary.
SceneHitStartOnly(seg, x) ==
    LET relativeX == x * secsPerPixel - seg.start
    IN IF relativeX < edgeThreshold * secsPerPixel THEN "resizing-start"
       ELSE "moving"

\* A variant of SceneHit that tests the end zone before the start zone.
SceneHitEndFirst(seg, x) ==
    LET relativeX == x * secsPerPixel - seg.start
        segmentWidth == seg.end - seg.start
    IN IF relativeX > segmentWidth - edgeThreshold * secsPerPixel
       THEN "resizing-end"
       ELSE IF relativeX < edgeThreshold * secsPerPixel THEN "resizing-start"
       ELSE "moving"

\* the drag type chosen by onMouseDown from relativeX and segmentPixelWidth()
SceneHit(seg, x) ==
    LET relativeX == x * secsPerPixel - seg.start
        segmentWidth == seg.end - seg.start
    IN IF relativeX < edgeThreshold * secsPerPixel THEN "resizing-start"
       ELSE IF relativeX > segmentWidth - edgeThreshold * secsPerPixel
            THEN "resizing-end"
       ELSE "moving"

\* addSceneSegment(mode)
addSceneSegment(mode) ==
    /\ Len(sceneSegments) < MaxSegments
    /\ LET time == playbackTime
           newSegment == [key |-> Len(sceneSegments) + 1, start |-> time,
                          end |-> Min(time + DefaultDuration, zoom), mode |-> mode]
       IN sceneSegments' = sortByStart(Append(sceneSegments, newSegment))
    /\ dirty' = TRUE
    /\ gesture' = NoGesture
    /\ budget.events > 0
    /\ budget' = [budget EXCEPT !.events = @ - 1]
    /\ UNCHANGED <<exporter, reported, layout, lastKey, emitted, captions, available, selection, transform, view, sessions, pending>>

\* onMouseDown of the scene segment with key k at clientX x
SceneMouseDown(k, x) ==
    /\ available
    /\ indexOf(sceneSegments, k) # 0
    /\ budget.downs > 0
    /\ LET i == indexOf(sceneSegments, k)
           seg == sceneSegments[i]
       IN /\ x \in DownXs(seg)
          /\ dragState' = [type |-> SceneHit(seg, x), index |-> i, startMouseX |-> x,
                           startSegment |-> [start |-> seg.start, end |-> seg.end]]
          /\ selection' = SceneSelection(i)
          /\ view' = RunEffects(view, captions, SceneSelection(i))
          /\ winListeners' = Append(winListeners, SceneListener(seg, x))
    /\ reported' = onDragStateChanged(reported, dragState')
    /\ mouseX' = x
    /\ gesture' = [phase |-> "down", track |-> "scene", key |-> k, refreshes |-> 0,
                   wasSelected |-> FALSE, moved |-> FALSE]
    /\ budget' = [budget EXCEPT !.downs = @ - 1]
    /\ UNCHANGED <<exporter, layout, lastKey, emitted, store, transform, docListeners, trackListeners, pending, dirty>>

\* onMouseDown of the scene track element, reached by a pointer-down on empty
\* track area: a mouseup listener is added to the element while dragState is
\* idle
SceneTrackMouseDown ==
    IF dragState.type # "idle" THEN UNCHANGED vars ELSE
    /\ trackListeners' = trackListeners + 1
    /\ gesture' = NoGesture
    /\ budget.events > 0
    /\ budget' = [budget EXCEPT !.events = @ - 1]
    /\ UNCHANGED <<exporter, reported, layout, lastKey, emitted, store, selection, transform, view, docListeners, dragState,
                   winListeners, mouseX, pending, dirty>>

\* index() of a scene gesture's segment: its place in the collection, and the
\* last place it had once it has left the collection
SceneIndex(l, segs) ==
    IF indexOf(segs, l.key) # 0 THEN indexOf(segs, l.key) ELSE l.disposed.index

\* A variant of sceneMouseMove that re-sorts the collection after its write.
sceneMouseMoveSorts(l, x, segs) ==
    LET deltaTime == (x - l.startMouseX) * secsPerPixel
        i == SceneIndex(l, segs)
        segment == IF indexOf(segs, l.key) # 0 THEN segs[i] ELSE l.disposed
        startSegment == l.startSegment
    IN IF ~available \/ i = 0 \/ i > Len(segs) THEN segs
       ELSE IF dragState.type = "moving" THEN
            sortByStart([segs EXCEPT ![i].start = Max(0, startSegment.start + deltaTime),
                                     ![i].end = startSegment.end + deltaTime])
       ELSE IF dragState.type = "resizing-start" THEN
            sortByStart([segs EXCEPT ![i].start =
                Max(0, Min(startSegment.start + deltaTime, segment.end - MinDuration))])
       ELSE IF dragState.type = "resizing-end" THEN
            [segs EXCEPT ![i].end =
                Max(segment.start + MinDuration, startSegment.end + deltaTime)]
       ELSE segs

\* the mousemove listener of one scene gesture, applied to the collection;
\* setProject writes nothing at an index where there is no segment
sceneMouseMove(l, x, segs) ==
    LET deltaTime == (x - l.startMouseX) * secsPerPixel
        i == SceneIndex(l, segs)
        segment == IF indexOf(segs, l.key) # 0 THEN segs[i] ELSE l.disposed
        startSegment == l.startSegment
    IN IF ~available \/ i = 0 \/ i > Len(segs) THEN segs
       ELSE IF dragState.type = "moving" THEN
            [segs EXCEPT ![i].start = Max(0, startSegment.start + deltaTime),
                         ![i].end = startSegment.end + deltaTime]
       ELSE IF dragState.type = "resizing-start" THEN
            [segs EXCEPT ![i].start =
                Max(0, Min(startSegment.start + deltaTime, segment.end - MinDuration))]
       ELSE IF dragState.type = "resizing-end" THEN
            [segs EXCEPT ![i].end =
                Max(segment.start + MinDuration, startSegment.end + deltaTime)]
       ELSE segs

\* every mousemove listener on window, in the order they were attached
RECURSIVE DispatchSceneMove(_, _, _)
DispatchSceneMove(ls, x, segs) ==
    IF ls = <<>> THEN segs
    ELSE DispatchSceneMove(Tail(ls), x, sceneMouseMove(Head(ls), x, segs))

\* some mousemove listener on window reaches a segment
SceneMoveWrites(ls, segs) ==
    /\ available /\ dragState.type # "idle"
    /\ \E n \in 1..Len(ls) : SceneIndex(ls[n], segs) \in 1..Len(segs)

\* ------------------------------------------- writes of other parts of the UI
\* the collection without its element at index i
RemoveAt(segs, i) == SubSeq(segs, 1, i - 1) \o SubSeq(segs, i + 1, Len(segs))

\* the caption with key k is removed from the collection by another UI path
DeleteCaption(k) ==
    /\ available
    /\ indexOf(captions, k) # 0
    /\ captions' = RemoveAt(captions, indexOf(captions, k))
    /\ view' = RunEffects(view, captions', selection)
    /\ gesture' = NoGesture
    /\ budget.events > 0
    /\ budget' = [budget EXCEPT !.events = @ - 1]
    /\ UNCHANGED <<exporter, reported, layout, lastKey, emitted, sceneSegments, available, selection, transform, sessions,
                   pending, dirty>>

\* the listeners of the scene segment with key k once it leaves the
\* collection at index i
Dispose(ls, k, i, seg) ==
    [n \in 1..Len(ls) |->
        IF ls[n].key = k /\ ls[n].disposed = NotDisposed
        THEN [ls[n] EXCEPT !.disposed = [index |-> i, start |-> seg.start,
                                         end |-> seg.end]]
        ELSE ls[n]]

\* the scene segment with key k is removed from the collection by another UI
\* path
DeleteScene(k) ==
    /\ available
    /\ indexOf(sceneSegments, k) # 0
    /\ LET i == indexOf(sceneSegments, k)
       IN /\ sceneSegments' = RemoveAt(sceneSegments, i)
          /\ winListeners' = Dispose(winListeners, k, i, sceneSegments[i])
    /\ gesture' = NoGesture
    /\ budget.events > 0
    /\ budget' = [budget EXCEPT !.events = @ - 1]
    /\ UNCHANGED <<exporter, reported, layout, lastKey, emitted, captions, available, selection, transform, view, docListeners,
                   dragState, trackListeners, mouseX, pending, dirty>>

\* the document is torn down: project.captions and project.timeline are gone
\* and every segment view is unmounted
StoreTornDown ==
    /\ available
    /\ available' = FALSE
    /\ gesture' = NoGesture
    /\ budget.events > 0
    /\ budget' = [budget EXCEPT !.events = @ - 1]
    /\ UNCHANGED <<exporter, reported, layout, lastKey, emitted, captions, sceneSegments, selection, transform, view, sessions,
                   pending, dirty>>

\* the caption with key k is removed from the collection by another UI path
\* while its text input is open: the component goes, and when the browser
\* delivers blur to the input as it is removed, onBlur runs saveEdit, which
\* looks for the id of the removed caption in what is left
DeleteEditedCaption(k, blur) ==
    /\ available
    /\ indexOf(captions, k) # 0
    /\ view[k].isEditing
    /\ LET removed == RemoveAt(captions, indexOf(captions, k))
           segmentIndex == findIndex(removed, captions[indexOf(captions, k)].id)
           wrote == blur /\ segmentIndex # 0
           updatedSegments == IF wrote
                              THEN [removed EXCEPT ![segmentIndex].text = view[k].editText]
                              ELSE removed
           t == (IF wrote THEN 1 ELSE 0) + (IF blur THEN 1 ELSE 0)
       IN /\ pending + t <= MaxTimers
          /\ captions' = updatedSegments
          /\ dirty' = (dirty \/ wrote)
          /\ pending' = pending + t
          /\ view' = RunEffects([view EXCEPT ![k] = IdleView], updatedSegments, selection)
    /\ gesture' = NoGesture
    /\ budget.events > 0
    /\ budget' = [budget EXCEPT !.events = @ - 1]
    /\ UNCHANGED <<exporter, reported, layout, lastKey, emitted, sceneSegments, available, selection, transform,
                   sessions>>

\* --------------------------------------------------- events of both tracks
\* a mousemove event at clientX x: with no listener attached it reaches no
\* handler of the two tracks
MouseMove(x) ==
    IF docListeners = <<>> /\ winListeners = <<>> THEN UNCHANGED vars ELSE
    /\ budget.moves > 0
    /\ LET caps == DispatchCaptionMove(docListeners, x, captions)
           wrote == \/ CaptionMoveWrites(docListeners, captions)
                    \/ SceneMoveWrites(winListeners, sceneSegments)
       IN /\ captions' = caps
          /\ view' = RunEffects(view, caps, selection)
          /\ dirty' = (dirty \/ wrote)
    /\ sceneSegments' = DispatchSceneMove(winListeners, x, sceneSegments)
    /\ mouseX' = x
    /\ gesture' = IF gesture.phase = "down" THEN [gesture EXCEPT !.moved = TRUE] ELSE gesture
    /\ budget' = [budget EXCEPT !.moves = @ - 1]
    /\ UNCHANGED <<exporter, reported, layout, lastKey, emitted, available, selection, transform, docListeners, dragState,
                   winListeners, trackListeners, pending>>

\* the mouseup listeners on window, one after the other: each sets dragState
\* to idle and passes it to onDragStateChanged
RECURSIVE ReportIdle(_, _)
ReportIdle(r, n) ==
    IF n = 0 THEN r ELSE ReportIdle(onDragStateChanged(r, IdleDrag), n - 1)

\* setIsDragging(null) of every handleMouseUp
StopDragging(v, ls) ==
    [k \in Keys |-> IF \E i \in 1..Len(ls) : ls[i].key = k
                    THEN [v[k] EXCEPT !.isDragging = "null"] ELSE v[k]]

\* A variant of MouseUp in which the gesture handlers forget to detach
\* themselves.
MouseUpKeepsListeners(where) ==
    LET n == (IF where = "caption" THEN 1 ELSE 0) + Len(docListeners)
        onTrack == where = "scene" /\ trackListeners > 0
        sel == IF onTrack /\ dragState.type = "idle" THEN NoSelection ELSE selection
    IN /\ pending + n <= MaxTimers
       /\ pending' = pending + n
       /\ IF onTrack THEN playbackTime' \in PlayheadTimes
                     ELSE playbackTime' = playbackTime
       /\ selection' = sel
       /\ trackListeners' = IF where = "scene" THEN 0 ELSE trackListeners
       /\ view' = RunEffects(StopDragging(view, docListeners), captions, sel)
       /\ dragState' = IF winListeners # <<>> THEN IdleDrag ELSE dragState
       /\ reported' = ReportIdle(reported, Len(winListeners))
       /\ gesture' = IF gesture.phase = "down"
                     THEN [gesture EXCEPT !.phase = "up", !.refreshes = @ + n]
                     ELSE NoGesture
       /\ UNCHANGED <<exporter, layout, lastKey, emitted, store, zoom, dirty, budget, docListeners, winListeners, mouseX>>

\* a mouseup event, the pointer being over the caption track, the scene track
\* or neither.  Over the scene track the listeners of the track element run
\* first: handleUpdatePlayhead moves the playhead and the selection is
\* cleared while dragState is idle.  Then onMouseUp of the caption track,
\* every handleMouseUp on document and every mouseup listener on window.
MouseUp(where) ==
    LET n == (IF where = "caption" THEN 1 ELSE 0) + Len(docListeners)
        onTrack == where = "scene" /\ trackListeners > 0
        sel == IF onTrack /\ dragState.type = "idle" THEN NoSelection ELSE selection
    IN /\ pending + n <= MaxTimers
       /\ pending' = pending + n
       /\ IF onTrack THEN playbackTime' \in PlayheadTimes
                     ELSE playbackTime' = playbackTime
       /\ selection' = sel
       /\ trackListeners' = IF where = "scene" THEN 0 ELSE trackListeners
       /\ view' = RunEffects(StopDragging(view, docListeners), captions, sel)
       /\ docListeners' = <<>>
       /\ dragState' = IF winListeners # <<>> THEN IdleDrag ELSE dragState
       /\ reported' = ReportIdle(reported, Len(winListeners))
       /\ winListeners' = <<>>
       /\ mouseX' = 0
       /\ gesture' = IF gesture.phase = "down"
                     THEN [gesture EXCEPT !.phase = "up", !.refreshes = @ + n]
                     ELSE NoGesture
       /\ UNCHANGED <<exporter, layout, lastKey, emitted, store, zoom, dirty, budget>>

\* A variant of TimerFire that requests the frame the playhead was at when
\* the timeline was mounted.
TimerFireStaleFrame ==
    /\ pending > 0
    /\ pending' = pending - 1
    /\ emitted' = RenderRequest(0)
    /\ dirty' = FALSE
    /\ UNCHANGED <<exporter, reported, layout, lastKey, store, selection, transform, view, sessions, gesture, budget>>

\* a refresh timer fires: events.renderFrameEvent.emit with the frame of the
\* playhead time read in the callback
TimerFire ==
    /\ pending > 0
    /\ pending' = pending - 1
    /\ emitted' = RenderRequest(playbackTime)
    /\ dirty' = FALSE
    /\ UNCHANGED <<exporter, reported, layout, lastKey, store, selection, transform, view, sessions, gesture, budget>>

\* the playhead clock moves
SetPlayhead(t) ==
    /\ t # playbackTime
    /\ playbackTime' = t
    /\ budget.events > 0
    /\ budget' = [budget EXCEPT !.events = @ - 1]
    /\ UNCHANGED <<exporter, reported, layout, lastKey, emitted, store, selection, zoom, view, sessions, pending, dirty, gesture>>

\* the timeline is zoomed
SetZoom(z) ==
    /\ z # zoom
    /\ zoom' = z
    /\ budget.events > 0
    /\ budget' = [budget EXCEPT !.events = @ - 1]
    /\ UNCHANGED <<exporter, reported, layout, lastKey, emitted, store, selection, playbackTime, view, sessions, pending, dirty,
                   gesture>>

\* a key is pressed while no text input is open: the event reaches the global
\* shortcut handlers
KeyElsewhere ==
    /\ \A k \in Keys : ~view[k].isEditing
    /\ lastKey' = "global"
    /\ UNCHANGED <<exporter, reported, layout, editor>>

\* ----------------------------------------------------------- CaptionExport
\* the names of CAPTION_FORMATS
CAPTION_FORMATS == {"WebVTT", "SRT", "Plain Text"}

\* A variant of the start of an export without the isExporting() guard.
startExportUnguarded(e, fn, format) ==
    [e EXCEPT !.isExporting = TRUE, !.exportingFormat = format,
              !.calls = Append(@, [fn |-> fn, format |-> format,
                                   awaits |-> IF fn = "exportCaptions" THEN "saveDialog"
                                              ELSE "exportFunction"])]

\* exportCaptions and exportCaptionToString up to their first await: nothing
\* while isExporting(); otherwise the two signals are set and saveDialog
\* (exportCaptions) or format.exportFunction (exportCaptionToString) is called
startExport(e, fn, format) ==
    IF e.isExporting THEN e
    ELSE [e EXCEPT !.isExporting = TRUE, !.exportingFormat = format,
                   !.calls = Append(@, [fn |-> fn, format |-> format,
                                        awaits |-> IF fn = "exportCaptions" THEN "saveDialog"
                                                   ELSE "exportFunction"])]

\* A variant of the finally block that leaves exportingFormat as it is.
finallyKeepsFormat(e) == [e EXCEPT !.isExporting = FALSE]

\* finally { setIsExporting(false); setExportingFormat(null); }
finally(e) ==
    [e EXCEPT !.isExporting = FALSE, !.exportingFormat = "null"]

\* the call at position i has returned or thrown
Settled(e, i) ==
    [e EXCEPT !.calls = [j \in 1..(Len(@) - 1) |-> IF j < i THEN @[j] ELSE @[j + 1]]]

\* exportCaptions(format)
exportCaptions(format) ==
    /\ budget.events > 0
    /\ exporter' = startExport(exporter, "exportCaptions", format)
    /\ budget' = [budget EXCEPT !.events = @ - 1]
    /\ UNCHANGED <<reported, layout, lastKey, emitted, store, selection, transform, view,
                   sessions, pending, dirty, gesture>>

\* exportCaptionToString(format), the onClick of a format button
exportCaptionToString(format) ==
    /\ budget.events > 0
    /\ exporter' = startExport(exporter, "exportCaptionToString", format)
    /\ budget' = [budget EXCEPT !.events = @ - 1]
    /\ UNCHANGED <<reported, layout, lastKey, emitted, store, selection, transform, view,
                   sessions, pending, dirty, gesture>>

\* exportCaptions from the return of saveDialog to its next await or its end:
\* with a path format.exportFunction is called; without one the signals are
\* reset and the function returns through finally; a rejection is caught,
\* toasted and followed by finally
SaveDialogSettles(i, result) ==
    /\ i \in 1..Len(exporter.calls)
    /\ exporter.calls[i].awaits = "saveDialog"
    /\ exporter' =
          CASE result = "path" -> [exporter EXCEPT !.calls[i].awaits = "exportFunction"]
            [] result = "null" ->
                 finally([Settled(exporter, i) EXCEPT !.isExporting = FALSE,
                                                      !.exportingFormat = "null"])
            [] result = "rejected" ->
                 finally([Settled(exporter, i) EXCEPT
                             !.toast = [kind |-> "error",
                                        format |-> exporter.calls[i].format]])
    /\ UNCHANGED <<reported, layout, lastKey, emitted, store, selection, transform, view,
                   sessions, pending, dirty, gesture, budget>>

\* either export function from the return of format.exportFunction to its
\* end: toast.success (after downloadCaptionString in exportCaptionToString),
\* or the catch block with toast.error; then finally
ExportFunctionSettles(i, ok) ==
    /\ i \in 1..Len(exporter.calls)
    /\ exporter.calls[i].awaits = "exportFunction"
    /\ exporter' = finally([Settled(exporter, i) EXCEPT
                                !.toast = [kind |-> IF ok THEN "success" ELSE "error",
                                           format |-> exporter.calls[i].format]])
    /\ UNCHANGED <<reported, layout, lastKey, emitted, store, selection, transform, view,
                   sessions, pending, dirty, gesture, budget>>

\* ---------------------------------------------------------- double arithmetic
\* The pixel values of a segment's element are JavaScript numbers.  A number
\* has kind "finite", "inf" or "nan"; a finite value is sign * m * 2^e with m
\* a natural number written in bits, lowest first and without high zeros, odd
\* unless the value is 0 (m = <<>>, e = 0).  Times, positions and
\* secsPerPixel are whole numbers here, which a number holds exactly.
MantissaBits == 53      \* bits of the significand of a number

Bit(b, i) == IF i >= 1 /\ i <= Len(b) THEN b[i] ELSE 0

\* the number of bits of a natural number below 2^30
BitLen(n) == CHOOSE l \in 0..30 : n < 2^l /\ (l = 0 \/ n >= 2^(l - 1))

NatBits(n) == [i \in 1..BitLen(n) |-> (n \div 2^(i - 1)) % 2]

\* the bits without their high zeros
Trim(b) ==
    LET ones == {i \in 1..Len(b) : b[i] = 1}
    IN IF ones = {} THEN <<>>
       ELSE SubSeq(b, 1, CHOOSE i \in ones : \A j \in ones : j <= i)

\* a + b: the carry into place i comes from the nearest lower place that makes
\* one, with every place between passing it on
AddBits(a, b) ==
    LET n == (IF Len(a) > Len(b) THEN Len(a) ELSE Len(b)) + 1
        carry(i) == \E j \in 1..(i - 1) :
                        /\ Bit(a, j) = 1 /\ Bit(b, j) = 1
                        /\ \A l \in (j + 1)..(i - 1) : Bit(a, l) # Bit(b, l)
    IN Trim([i \in 1..n |->
                (Bit(a, i) + Bit(b, i) + (IF carry(i) THEN 1 ELSE 0)) % 2])

\* a - b for a >= b, with borrows in place of carries
SubBits(a, b) ==
    LET borrow(i) == \E j \in 1..(i - 1) :
                         /\ Bit(a, j) < Bit(b, j)
                         /\ \A l \in (j + 1)..(i - 1) : Bit(a, l) = Bit(b, l)
    IN Trim([i \in 1..Len(a) |->
                (Bit(a, i) + 2 - Bit(b, i) - (IF borrow(i) THEN 1 ELSE 0)) % 2])

\* a < b
LessBits(a, b) ==
    LET n == IF Len(a) > Len(b) THEN Len(a) ELSE Len(b)
    IN \E i \in 1..n : /\ Bit(a, i) < Bit(b, i)
                       /\ \A l \in (i + 1)..n : Bit(a, l) = Bit(b, l)

ShiftLeft(b, n) == IF b = <<>> THEN b ELSE [i \in 1..n |-> 0] \o b

\* a * k for a natural number k below 2^30
RECURSIVE MulSmall(_, _)
MulSmall(a, k) ==
    IF k = 0 THEN <<>>
    ELSE AddBits(IF k % 2 = 1 THEN a ELSE <<>>,
                 ShiftLeft(MulSmall(a, k \div 2), 1))

Finite(s, m, e) == [kind |-> "finite", sign |-> s, m |-> m, e |-> e]
Zero == Finite(1, <<>>, 0)
Infinity(s) == [kind |-> "inf", sign |-> s, m |-> <<>>, e |-> 0]
NaN == [kind |-> "nan", sign |-> 1, m |-> <<>>, e |-> 0]

\* the low zeros of m go to the exponent
Canon(s, m, e) ==
    LET ones == {i \in 1..Len(m) : m[i] = 1}
        low == CHOOSE i \in ones : \A j \in ones : i <= j
    IN IF ones = {} THEN Zero
       ELSE Finite(s, Trim(SubSeq(m, low, Len(m))), e + low - 1)

\* round to nearest, ties to even, at MantissaBits bits
Round(s, m0, e) ==
    LET m == Trim(m0)
        d == Len(m) - MantissaBits
    IN IF d <= 0 THEN Canon(s, m, e)
       ELSE LET kept == SubSeq(m, d + 1, Len(m))
                sticky == \E i \in 1..(d - 1) : m[i] = 1
                up == m[d] = 1 /\ (sticky \/ kept[1] = 1)
            IN Canon(s, IF up THEN AddBits(kept, <<1>>) ELSE kept, e + d)

FromInt(n) == IF n < 0 THEN Canon(-1, NatBits(-n), 0) ELSE Canon(1, NatBits(n), 0)

Neg(x) == [x EXCEPT !.sign = -x.sign]

\* the exact sum of two finite values
ExactAdd(x, y) ==
    LET e == IF x.e < y.e THEN x.e ELSE y.e
        a == ShiftLeft(x.m, x.e - e)
        b == ShiftLeft(y.m, y.e - e)
    IN IF x.sign = y.sign THEN Finite(x.sign, AddBits(a, b), e)
       ELSE IF LessBits(a, b) THEN Finite(y.sign, SubBits(b, a), e)
       ELSE Finite(x.sign, SubBits(a, b), e)

\* x + y
Add(x, y) ==
    IF x.kind = "nan" \/ y.kind = "nan" THEN NaN
    ELSE IF x.kind = "inf" /\ y.kind = "inf"
         THEN (IF x.sign = y.sign THEN x ELSE NaN)
    ELSE IF x.kind = "inf" THEN x
    ELSE IF y.kind = "inf" THEN y
    ELSE LET z == ExactAdd(x, y) IN Round(z.sign, z.m, z.e)

Sub(x, y) == Add(x, Neg(y))

\* x * k for an integer k
Mul(x, k) ==
    LET s == IF k < 0 THEN -x.sign ELSE x.sign
        a == IF k < 0 THEN -k ELSE k
    IN IF x.kind = "nan" THEN NaN
       ELSE IF x.kind = "inf" THEN (IF k = 0 THEN NaN ELSE Infinity(s))
       ELSE Round(s, MulSmall(x.m, a), x.e)

\* 2^i modulo k
RECURSIVE Pow2Mod(_, _)
Pow2Mod(i, k) ==
    IF i = 0 THEN 1 % k
    ELSE LET h == Pow2Mod(i \div 2, k)
         IN (h * h * (IF i % 2 = 1 THEN 2 ELSE 1)) % k

\* the value of a short bit string
BitsToNat(b) ==
    LET RECURSIVE sum(_)
        sum(i) == IF i > Len(b) THEN 0 ELSE b[i] * 2^(i - 1) + sum(i + 1)
    IN sum(1)

\* the bits of floor(n * 2^f / k) by long division: the bit of weight 2^(f - i)
\* is the quotient of twice the remainder of n * 2^(i - 1), and below them one
\* more bit that says whether the division left a remainder
QuotientBits(n, k, f) ==
    LET bit(i) == IF i >= 1 THEN (2 * ((n * Pow2Mod(i - 1, k)) % k)) \div k
                  ELSE (n \div (k * 2^(-i))) % 2
        rest == IF (n * Pow2Mod(f, k)) % k = 0 THEN 0 ELSE 1
    IN <<rest>> \o [j \in 1..(f + BitLen(n)) |-> bit(f + 1 - j)]

\* x / k for an integer k and a dividend whose mantissa is below 2^15
Div(x, k) ==
    LET s == IF k < 0 THEN -x.sign ELSE x.sign
        a == IF k < 0 THEN -k ELSE k
        f == MantissaBits + 2 + BitLen(a)
    IN IF x.kind = "nan" THEN NaN
       ELSE IF x.kind = "inf" THEN Infinity(s)
       ELSE IF k = 0 THEN (IF x.m = <<>> THEN NaN ELSE Infinity(x.sign))
       ELSE Round(s, QuotientBits(BitsToNat(x.m), a, f), x.e - f - 1)

\* x > 0
Positive(x) == x.kind # "nan" /\ x.sign = 1 /\ (x.kind = "inf" \/ x.m # <<>>)

\* x < y
Less(x, y) ==
    IF x.kind = "nan" \/ y.kind = "nan" THEN FALSE
    ELSE IF x.kind = "inf" THEN x.sign = -1 /\ ~(y.kind = "inf" /\ y.sign = -1)
    ELSE IF y.kind = "inf" THEN y.sign = 1
    ELSE LET d == ExactAdd(x, Neg(y)) IN d.m # <<>> /\ d.sign = -1

\* |x - y| < 2^(-bits)
Within(x, y, bits) ==
    /\ x.kind = "finite" /\ y.kind = "finite"
    /\ LET d == ExactAdd(x, Neg(y))
       IN d.m = <<>> \/ Len(d.m) + d.e <= -bits

\* -------------------------------------------------------------- viewport
\* startX of a CaptionSegment
startXIgnoresPosition(segment, position, spp) ==
    Div(FromInt(segment.start), spp)

startX(segment, position, spp) ==
    Div(Sub(FromInt(segment.start), FromInt(position)), spp)

\* width of a CaptionSegment
width(segment, spp) ==
    Div(Sub(FromInt(segment.end), FromInt(segment.start)), spp)

\* isVisible of a CaptionSegment
isVisible(segment, position, spp) ==
    LET endX == Add(startX(segment, position, spp), width(segment, spp))
    IN Positive(endX) /\ Less(startX(segment, position, spp), FromInt(TrackWidth))

\* segmentPixelStart, segmentPixelEnd and segmentPixelWidth of a scene segment
segmentPixelStart(segment, position, spp) ==
    Div(Sub(FromInt(segment.start), FromInt(position)), spp)
segmentPixelEnd(segment, position, spp) ==
    Div(Sub(FromInt(segment.end), FromInt(position)), spp)
segmentPixelWidth(segment, position, spp) ==
    Sub(segmentPixelEnd(segment, position, spp), segmentPixelStart(segment, position, spp))

\* the <Show when> around a scene segment's element
sceneVisible(segment, position, spp) ==
    /\ Positive(segmentPixelEnd(segment, position, spp))
    /\ Less(segmentPixelStart(segment, position, spp), FromInt(TrackWidth))

\* the two conversions of the viewport contract
timeToPixel(t, position, spp) == Div(Sub(FromInt(t), FromInt(position)), spp)
pixelToTime(x, position, spp) == Add(Mul(x, spp), FromInt(position))

\* a segment, a transform.position and a secsPerPixel before any element is
\* laid out for them
Layout(segment, position, spp) ==
    [phase |-> "input", track |-> "none", segment |-> segment, position |-> position,
     secsPerPixel |-> spp, visible |-> FALSE, left |-> Zero, width |-> Zero,
     time |-> Zero]
NoLayout == [Layout([start |-> 0, end |-> 0], 0, 1) EXCEPT !.phase = "none"]

\* the element of a CaptionSegment is laid out
CaptionLayout ==
    /\ layout.phase = "input"
    /\ layout' = [layout EXCEPT
           !.phase = "pixel", !.track = "caption",
           !.visible = isVisible(layout.segment, layout.position, layout.secsPerPixel),
           !.left = startX(layout.segment, layout.position, layout.secsPerPixel),
           !.width = width(layout.segment, layout.secsPerPixel)]
    /\ UNCHANGED <<exporter, reported, editor, lastKey>>

\* the element of a scene segment is laid out
SceneLayout ==
    /\ layout.phase = "input"
    /\ layout' = [layout EXCEPT
           !.phase = "pixel", !.track = "scene",
           !.visible = sceneVisible(layout.segment, layout.position, layout.secsPerPixel),
           !.left = segmentPixelStart(layout.segment, layout.position, layout.secsPerPixel),
           !.width = segmentPixelWidth(layout.segment, layout.position, layout.secsPerPixel)]
    /\ UNCHANGED <<exporter, reported, editor, lastKey>>

\* the left edge of the element is converted back to a time
LeftEdgeTime ==
    /\ layout.phase = "pixel"
    /\ layout' = [layout EXCEPT
           !.phase = "time",
           !.time = pixelToTime(layout.left, layout.position, layout.secsPerPixel)]
    /\ UNCHANGED <<exporter, reported, editor, lastKey>>

\* ------------------------------------------------------------ specification
InitCaptions ==
    { <<>>,
      <<[key |-> 1, id |-> "A", start |-> 20, end |-> 40, text |-> "hi"]>>,
      <<[key |-> 1, id |-> "A", start |-> 0, end |-> 30, text |-> "hi"],
        [key |-> 2, id |-> "B", start |-> 50, end |-> 80, text |-> "hi"]>> }

InitScenes ==
    { <<[key |-> 1, start |-> 20, end |-> 40, mode |-> "default"]>>,
      <<[key |-> 1, start |-> 0, end |-> 30, mode |-> "default"],
        [key |-> 2, start |-> 50, end |-> 80, mode |-> "cameraOnly"]>> }

\* The state after the timeline is mounted over the collections of C and S,
\* with b pointer-downs, pointer-moves and edit events to come.
InitWith(C, S, b) ==
    /\ captions \in C
    /\ sceneSegments \in S
    /\ available = TRUE
    /\ selection = NoSelection
    /\ playbackTime = 0
    /\ zoom \in Zooms
    /\ view = RunEffects([k \in Keys |-> IdleView], captions, NoSelection)
    /\ docListeners = <<>>
    /\ dragState = IdleDrag
    /\ winListeners = <<>>
    /\ trackListeners = 0
    /\ mouseX = 0
    /\ pending = 0
    /\ emitted = NoRequest
    /\ dirty = FALSE
    /\ gesture = NoGesture
    /\ budget = b
    /\ lastKey = "none"
    /\ layout = NoLayout
    /\ reported = NoReport
    /\ exporter = IdleExporter

CaptionNext ==
    \/ \E k \in Keys, x \in DownCandidates(captions) : CaptionMouseDown(k, x)
    \/ \E k \in Keys : CaptionClick(k)
    \/ \E k \in Keys : handleDoubleClick(k)
    \/ \E k \in Keys, txt \in TypedTexts : InputTyping(k, txt)
    \/ \E k \in Keys, key \in {"Enter", "Escape", "a"}, blur \in BOOLEAN :
            InputKeyDown(k, key, blur)
    \/ \E k \in Keys : InputKeyUp(k)
    \/ \E k \in Keys : InputKeyPress(k)
    \/ \E k \in Keys : InputBlur(k)
    \/ \E k \in Keys : InputFocus(k)
    \/ CaptionTrackMouseDown
    \/ CaptionTrackClick
    \/ \E id \in ClockIds : handleAddCaption(id)

SceneNext ==
    \/ \E mode \in ButtonModes : addSceneSegment(mode)
    \/ \E k \in Keys, x \in DownCandidates(sceneSegments) : SceneMouseDown(k, x)
    \/ SceneTrackMouseDown

PointerNext ==
    \/ \E d \in PointerSteps : MouseMove(mouseX + d)
    \/ \E where \in {"caption", "scene", "elsewhere"} : MouseUp(where)

ClockNext ==
    \/ TimerFire
    \/ \E t \in PlayheadTimes : SetPlayhead(t)
    \/ \E z \in Zooms : SetZoom(z)

\* both tracks, with one gesture and few events per run
Init ==
    InitWith(InitCaptions, InitScenes,
             [downs |-> 1, moves |-> 1, events |-> MaxEvents - 1])
Next == CaptionNext \/ SceneNext \/ PointerNext \/ ClockNext
Spec == Init /\ [][Next]_vars

\* the scene track alone
InitScene ==
    InitWith({<<>>}, InitScenes,
             [downs |-> MaxDowns, moves |-> MaxMoves, events |-> MaxEvents - 1])
NextScene == SceneNext \/ PointerNext \/ ClockNext
SpecScene == InitScene /\ [][NextScene]_vars

\* the caption track alone, with two gestures and fewer other events per run
InitCaption ==
    InitWith(InitCaptions, {<<>>},
             [downs |-> MaxDowns, moves |-> MaxMoves - 1, events |-> MaxEvents - 1])
NextCaption == CaptionNext \/ PointerNext \/ ClockNext
SpecCaption == InitCaption /\ [][NextCaption]_vars

\* the text editor alone, on captions added to an empty collection, with more
\* edit events per run and no gesture
InitEdit == InitWith({<<>>}, {<<>>}, [downs |-> 0, moves |-> 0, events |-> MaxEvents + 2])
NextEdit ==
    \/ \E id \in ClockIds : handleAddCaption(id)
    \/ \E k \in Keys : CaptionClick(k)
    \/ \E k \in Keys : handleDoubleClick(k)
    \/ \E k \in Keys, txt \in TypedTexts : InputTyping(k, txt)
    \/ \E k \in Keys, key \in {"Enter", "Escape", "a"}, blur \in BOOLEAN :
            InputKeyDown(k, key, blur)
    \/ \E k \in Keys : InputKeyUp(k)
    \/ \E k \in Keys : InputKeyPress(k)
    \/ \E k \in Keys : InputBlur(k)
    \/ \E k \in Keys : InputFocus(k)
    \/ TimerFire
    \/ KeyElsewhere
SpecEdit == InitEdit /\ [][NextEdit]_vars

\* both tracks, with one gesture of several pointer-moves per run
InitDrag ==
    InitWith(InitCaptions, InitScenes,
             [downs |-> 1, moves |-> MaxMoves, events |-> MaxEvents - 1])
NextDrag ==
    \/ \E k \in Keys, x \in DownCandidates(captions) : CaptionMouseDown(k, x)
    \/ \E k \in Keys, x \in DownCandidates(sceneSegments) : SceneMouseDown(k, x)
    \/ \E id \in ClockIds : handleAddCaption(id)
    \/ \E mode \in ButtonModes : addSceneSegment(mode)
    \/ PointerNext
    \/ ClockNext
SpecDrag == InitDrag /\ [][NextDrag]_vars

\* both tracks, with gestures during which another UI path removes a segment
\* or the document is torn down
InitStale ==
    InitWith(InitCaptions, InitScenes,
             [downs |-> 1, moves |-> MaxMoves, events |-> MaxEvents - 1])
NextStale ==
    \/ \E k \in Keys, x \in DownCandidates(captions) : CaptionMouseDown(k, x)
    \/ \E k \in Keys, x \in DownCandidates(sceneSegments) : SceneMouseDown(k, x)
    \/ PointerNext
    \/ TimerFire
    \/ \E k \in Keys : DeleteCaption(k)
    \/ \E k \in Keys : DeleteScene(k)
    \/ StoreTornDown
SpecStale == InitStale /\ [][NextStale]_vars

\* the layout of one element, for segments, positions and secsPerPixel values
\* of a few whole seconds; secsPerPixel is 0 or negative in a layout frame in
\* which the track has no width yet
LayoutStarts == 0..2
LayoutLengths == {1, 2}
LayoutPositions == 0..2
LayoutSecsPerPixel == {-1, 0, 1, 3, 49}
InitViewport ==
    /\ captions = <<>>
    /\ sceneSegments = <<>>
    /\ available = TRUE
    /\ selection = NoSelection
    /\ playbackTime = 0
    /\ zoom = TrackWidth
    /\ view = [k \in Keys |-> IdleView]
    /\ docListeners = <<>>
    /\ dragState = IdleDrag
    /\ winListeners = <<>>
    /\ trackListeners = 0
    /\ reported = NoReport
    /\ exporter = IdleExporter
    /\ mouseX = 0
    /\ pending = 0
    /\ emitted = NoRequest
    /\ dirty = FALSE
    /\ gesture = NoGesture
    /\ budget = [downs |-> 0, moves |-> 0, events |-> 0]
    /\ lastKey = "none"
    /\ layout \in {Layout([start |-> a, end |-> a + d], p, spp) :
                      a \in LayoutStarts, d \in LayoutLengths,
                      p \in LayoutPositions, spp \in LayoutSecsPerPixel}
NextViewport ==
    \/ CaptionLayout
    \/ SceneLayout
    \/ LeftEdgeTime
SpecViewport == InitViewport /\ [][NextViewport]_vars

\* the caption track alone from an empty collection, with edits during which
\* another UI path removes the edited caption or the document is torn down
InitCommit == InitWith({<<>>}, {<<>>}, [downs |-> 0, moves |-> 0, events |-> MaxEvents + 2])
NextCommit ==
    \/ NextEdit
    \/ \E k \in Keys, blur \in BOOLEAN : DeleteEditedCaption(k, blur)
    \/ StoreTornDown
SpecCommit == InitCommit /\ [][NextCommit]_vars

\* the CaptionExport component alone: export requests in every format, the
\* save dialog and the backend returning in any order
InitExport == InitWith({<<>>}, {<<>>}, [downs |-> 0, moves |-> 0, events |-> MaxEvents])
NextExport ==
    \/ \E format \in CAPTION_FORMATS : exportCaptions(format)
    \/ \E format \in CAPTION_FORMATS : exportCaptionToString(format)
    \/ \E i \in 1..MaxEvents, result \in {"path", "null", "rejected"} :
            SaveDialogSettles(i, result)
    \/ \E i \in 1..MaxEvents, ok \in BOOLEAN : ExportFunctionSettles(i, ok)
SpecExport == InitExport /\ [][NextExport]_vars

\* the same with a save dialog that is eventually closed and a backend that
\* eventually answers
SpecExportLive ==
    /\ SpecExport
    /\ WF_vars(\E i \in 1..MaxEvents, result \in {"path", "null", "rejected"} :
                    SaveDialogSettles(i, result))
    /\ WF_vars(\E i \in 1..MaxEvents, ok \in BOOLEAN : ExportFunctionSettles(i, ok))

\* ------------------------------------------------------------------ claims
\* the steps of Next that are a mousemove and a mouseup event
MouseMoveStep == \E d \in PointerSteps : MouseMove(mouseX + d)
MouseUpStep == \E where \in {"caption", "scene", "elsewhere"} : MouseUp(where)

ValidGeometry(segs) ==
    \A i \in 1..Len(segs) : segs[i].start >= 0 /\ segs[i].end - segs[i].start >= MinDuration

\* C1: in every reachable state every caption and every scene segment has
\* start >= 0 and end - start >= 0.1 s.
C1_GeometryInvariant == ValidGeometry(captions) /\ ValidGeometry(sceneSegments)

\* C2: in every mousemove tick of a moving gesture, on a caption or on a scene
\* segment, the segment's end - start after the tick is the end - start of the
\* gesture's snapshot.
C2_DurationInvariantUnderMove ==
    [][MouseMoveStep =>
        /\ \A n \in 1..Len(docListeners) :
              LET l == docListeners[n]
                  i == indexOf(captions', l.key)
              IN l.type = "move" =>
                    captions'[i].end - captions'[i].start
                        = l.startSegment.end - l.startSegment.start
        /\ \A n \in 1..Len(winListeners) :
              LET l == winListeners[n]
                  i == indexOf(sceneSegments', l.key)
              IN dragState.type = "moving" =>
                    sceneSegments'[i].end - sceneSegments'[i].start
                        = l.startSegment.end - l.startSegment.start
      ]_vars

\* C3: in every mousemove tick of a resizing-start gesture, on a caption or on
\* a scene segment with end > start, the new start is
\* clamp(snapshot start + deltaTime, 0, end - 0.1 s), the end is unchanged and
\* end - start >= 0.1 s afterwards.
C3_ResizeStartClamp ==
    [][MouseMoveStep =>
        /\ \A n \in 1..Len(docListeners) :
              LET l == docListeners[n]
                  old == captions[indexOf(captions, l.key)]
                  new == captions'[indexOf(captions', l.key)]
                  deltaTime == (mouseX' - l.startPos) * secsPerPixel
              IN l.type = "start" /\ old.end > old.start =>
                    /\ new.start = Max(0, Min(l.startSegment.start + deltaTime,
                                              old.end - MinDuration))
                    /\ new.end = old.end
                    /\ new.end - new.start >= MinDuration
        /\ \A n \in 1..Len(winListeners) :
              LET l == winListeners[n]
                  old == sceneSegments[indexOf(sceneSegments, l.key)]
                  new == sceneSegments'[indexOf(sceneSegments', l.key)]
                  deltaTime == (mouseX' - l.startMouseX) * secsPerPixel
              IN dragState.type = "resizing-start" /\ old.end > old.start =>
                    /\ new.start = Max(0, Min(l.startSegment.start + deltaTime,
                                              old.end - MinDuration))
                    /\ new.end = old.end
                    /\ new.end - new.start >= MinDuration
      ]_vars

\* C4: in every mousemove tick of a resizing-end gesture, on a caption or on a
\* scene segment, the new end is max(start + 0.1 s, snapshot end + deltaTime)
\* and the start is unchanged.
C4_ResizeEnd ==
    [][MouseMoveStep =>
        /\ \A n \in 1..Len(docListeners) :
              LET l == docListeners[n]
                  old == captions[indexOf(captions, l.key)]
                  new == captions'[indexOf(captions', l.key)]
                  deltaTime == (mouseX' - l.startPos) * secsPerPixel
              IN l.type = "end" =>
                    /\ new.end = Max(old.start + MinDuration,
                                     l.startSegment.end + deltaTime)
                    /\ new.start = old.start
        /\ \A n \in 1..Len(winListeners) :
              LET l == winListeners[n]
                  old == sceneSegments[indexOf(sceneSegments, l.key)]
                  new == sceneSegments'[indexOf(sceneSegments', l.key)]
                  deltaTime == (mouseX' - l.startMouseX) * secsPerPixel
              IN dragState.type = "resizing-end" =>
                    /\ new.end = Max(old.start + MinDuration,
                                     l.startSegment.end + deltaTime)
                    /\ new.start = old.start
      ]_vars

\* C5: after the mouseup of a gesture that changed its segment's start, the
\* caption and the scene collection are sorted ascending by start.
C5_SortedAfterGesture ==
    [][MouseUpStep =>
        /\ (\E n \in 1..Len(docListeners) :
               LET l == docListeners[n]
               IN captions[indexOf(captions, l.key)].start # l.startSegment.start)
           => Sorted(captions')
        /\ (\E n \in 1..Len(winListeners) :
               LET l == winListeners[n]
               IN sceneSegments[indexOf(sceneSegments, l.key)].start
                      # l.startSegment.start)
           => Sorted(sceneSegments')
      ]_vars

\* C6: whenever a collection was written and no redraw was emitted since, a
\* redraw is on its way: a refresh timer is pending, or a caption gesture is
\* attached whose mouseup schedules one.
C6_RefreshAfterMutation == dirty => (pending > 0 \/ docListeners # <<>>)

\* C7: when a drag gesture is completed (mousedown on a segment, mousemove
\* ticks, mouseup, and the click that follows on the caption track), exactly
\* one refresh timer was scheduled by the handlers that ran for it.
C7_OneRefreshPerGesture ==
    gesture.phase \in {"up", "clicked"} => gesture.refreshes = 1

\* the caption components whose isDragging is not null
Dragging == {k \in Keys : view[k].isDragging # "null"}

\* C8: a step that writes a collection emits no redraw and fires no timer, so
\* the write is left to be drawn; a caption text commit and add-caption
\* schedule a refresh timer in the step of the write; and a redraw is emitted
\* only by a step that fires a pending timer and writes nothing.
C8_RefreshDeferred ==
    [][/\ store' # store => dirty' /\ pending' >= pending
       /\ (captions' # captions /\ ~MouseMoveStep) => pending' > pending
       /\ (dirty /\ ~dirty') => (pending' = pending - 1 /\ store' = store)
      ]_vars

\* C8 witness: a caption was added, a gesture has written since and the redraw
\* that follows was emitted.
C8_Witness ==
    /\ ~dirty
    /\ pending = 0
    /\ gesture.phase = "up"
    /\ budget.moves = 0
    /\ \E i \in 1..Len(captions) : captions[i].text = "New caption"

\* C9: at most one pair of gesture listeners is attached and at most one
\* segment is in a drag state that is not idle.
C9_AtMostOneDragSession ==
    /\ Len(docListeners) + Len(winListeners) <= 1
    /\ Cardinality(Dragging) + (IF dragState.type # "idle" THEN 1 ELSE 0) <= 1

\* the start and end of every segment, by component
Geometry(segs) ==
    [k \in Keys |-> IF indexOf(segs, k) = 0 THEN <<>>
                    ELSE <<segs[indexOf(segs, k)].start, segs[indexOf(segs, k)].end>>]

\* C10: a caption's isDragging and the scene track's dragState return to idle
\* in a mouseup step only, and while a gesture is attached every step other
\* than a mousemove leaves the start and end of all existing segments as they
\* are (nothing reverts a segment to its snapshot).
C10_OnlyPointerUpEndsGesture ==
    [][/\ (\E k \in Keys : view[k].isDragging # "null" /\ view'[k].isDragging = "null")
            => MouseUpStep
       /\ (dragState.type # "idle" /\ dragState'.type = "idle") => MouseUpStep
       /\ ((docListeners # <<>> \/ winListeners # <<>>) /\ ~MouseMoveStep)
            => \A k \in Keys :
                  /\ Geometry(captions)[k] # <<>> => Geometry(captions')[k] = Geometry(captions)[k]
                  /\ Geometry(sceneSegments)[k] # <<>>
                        => Geometry(sceneSegments')[k] = Geometry(sceneSegments)[k]
      ]_vars

\* C10 witness: a caption gesture has moved its segment away from the snapshot
\* and left it with the pointer, a user event that is no part of the gesture
\* has been handled since the mousedown, and the segment is still dragging and
\* still where the gesture put it.
C10_Witness ==
    \E n \in 1..Len(docListeners) :
        LET l == docListeners[n]
            seg == captions[indexOf(captions, l.key)]
        IN /\ view[l.key].isDragging # "null"
           /\ gesture = NoGesture
           /\ seg.start # l.startSegment.start
           /\ ~Inside(seg, mouseX)

\* C11: a mouseup detaches every gesture listener of document and window, and
\* while no caption is dragging and the scene dragState is idle a mousemove
\* changes no segment of either collection.
C11_HandlersDetached ==
    [][/\ MouseUpStep => (docListeners' = <<>> /\ winListeners' = <<>>)
       /\ (MouseMoveStep /\ Dragging = {} /\ dragState.type = "idle")
            => store' = store
      ]_vars

\* C11 witness: a gesture that wrote a collection has ended with its mouseup,
\* nothing is dragging and no listener is attached.
C11_Witness ==
    /\ gesture.phase = "up"
    /\ dirty
    /\ Dragging = {} /\ dragState.type = "idle"
    /\ docListeners = <<>> /\ winListeners = <<>>

\* C12: after a single click (mousedown, mouseup, click) on a caption that was
\* not the selection at the mousedown, the caption is the selection and its
\* view is not editing.
C12_SingleClickOnlySelects ==
    (gesture.phase = "clicked" /\ ~gesture.wasSelected) =>
        LET seg == captions[indexOf(captions, gesture.key)]
        IN isSelected(seg) /\ ~view[gesture.key].isEditing

\* C13: after every step a caption view that is editing belongs to the selected
\* caption, and a view that was editing is no longer editing when the step
\* changed the selection.
C13_EditingNeverOutlivesSelection ==
    [][\A k \in Keys :
          /\ view'[k].isEditing =>
                /\ indexOf(captions', k) # 0
                /\ selection'.type = "caption"
                /\ selection'.id = captions'[indexOf(captions', k)].id
          /\ (view[k].isEditing /\ selection' # selection) => ~view'[k].isEditing
      ]_vars

\* C13 witness: the selected caption is being edited with typed text in its
\* buffer while another caption exists.
C13_Witness ==
    /\ Len(captions) = 2
    /\ \E k \in Keys : view[k].isEditing /\ view[k].editText \in TypedTexts

\* C14: Escape in the text input leaves the stored text of every caption as
\* it was and the view not editing, also when blur is delivered to the input
\* after the Escape.
C14_EscapeCancelsEdit ==
    [][\A k \in Keys, blur \in BOOLEAN :
          (view[k].isEditing /\ CancelEdit(k, blur)) =>
              /\ \A i \in 1..Len(captions) : captions'[i].text = captions[i].text
              /\ ~view'[k].isEditing
      ]_vars

\* the steps of Next that add a segment at the playhead
AddCaptionStep == \E id \in ClockIds : handleAddCaption(id)
AddSceneStep == \E mode \in ButtonModes : addSceneSegment(mode)

\* news is olds with one more segment, of component k, from t to
\* t + DefaultDuration: the old segments are unchanged, the order is ascending
\* by start, and segments with equal starts keep their order, the new one last.
AddedAt(olds, news, k, t) ==
    /\ Len(news) = Len(olds) + 1
    /\ indexOf(news, k) # 0
    /\ news[indexOf(news, k)].start = t
    /\ news[indexOf(news, k)].end = t + DefaultDuration
    /\ \A i \in 1..Len(olds) :
          /\ indexOf(news, olds[i].key) # 0
          /\ news[indexOf(news, olds[i].key)] = olds[i]
    /\ Sorted(news)
    /\ \A i, j \in 1..Len(olds) :
          (i < j /\ olds[i].start = olds[j].start)
              => indexOf(news, olds[i].key) < indexOf(news, olds[j].key)
    /\ \A i \in 1..Len(olds) :
          olds[i].start = t => indexOf(news, olds[i].key) < indexOf(news, k)

\* C16: an add at playhead time t, on the caption and on the scene track,
\* gives the previous segments unchanged plus a new segment t .. t + 2 s,
\* sorted ascending by start with ties in their previous order.
C16_AddAtPlayheadResult ==
    [][/\ AddCaptionStep =>
            AddedAt(captions, captions', Len(captions) + 1, playbackTime)
       /\ AddSceneStep =>
            AddedAt(sceneSegments, sceneSegments', Len(sceneSegments) + 1, playbackTime)
      ]_vars

\* C17: right after an add at the playhead, on the caption and on the scene
\* track, the selection references the segment just created.
C17_AddSelectsNewSegment ==
    [][/\ AddCaptionStep =>
            /\ selection'.type = "caption"
            /\ selection'.id = captions'[indexOf(captions', Len(captions) + 1)].id
       /\ AddSceneStep =>
            /\ selection'.type = "scene"
            /\ selection'.index = indexOf(sceneSegments', Len(sceneSegments) + 1)
      ]_vars

\* C19: the ids of the caption collection are pairwise distinct.
C19_UniqueIds ==
    \A i, j \in 1..Len(captions) : captions[i].id = captions[j].id => i = j

\* C20: when a scene segment is the selection and a step re-sorts the scene
\* collection, the selection references the same segment afterwards.
C20_SelectionSurvivesReSort ==
    [][(AddSceneStep /\ selection.type = "scene") =>
            /\ selection'.type = "scene"
            /\ sceneSegments'[selection'.index].key = sceneSegments[selection.index].key
      ]_vars

\* the steps of Next in which the component k invokes saveEdit: Enter in the
\* text input, and blur
CommitStep(k) ==
    /\ view[k].isEditing
    /\ \/ \E blur \in BOOLEAN : InputKeyDown(k, "Enter", blur)
       \/ InputBlur(k)

\* C15: Enter or blur while a caption is editing writes the edit buffer as the
\* stored text of that caption and leaves its view not editing.
C15_Commit ==
    [][\A k \in Keys :
          CommitStep(k) =>
              /\ captions'[indexOf(captions', k)].text = view[k].editText
              /\ ~view'[k].isEditing
      ]_vars

\* a drag gesture is in progress: a caption view is dragging or the scene
\* dragState is not idle
DragInProgress == Dragging # {} \/ dragState.type # "idle"

\* the steps of Next that complete a click on empty track area: the click
\* event on the caption track element, and the mouseup that runs a listener
\* of the scene track element
TrackClickStep ==
    \/ CaptionTrackClick
    \/ MouseUp("scene") /\ trackListeners > 0

\* C18: a click on empty track area, on either track, leaves no selection and
\* no caption view editing when no drag gesture is in progress at the
\* pointer-up, and leaves the selection unchanged when one is.
C18_ClickToClear ==
    [][TrackClickStep =>
          IF DragInProgress
          THEN selection' = selection
          ELSE /\ selection' = NoSelection
               /\ \A k \in Keys : ~view'[k].isEditing
      ]_vars

\* the collection with the start and end of the segment at index i put back
\* to those of the snapshot s
AtSnapshot(segs, i, s) ==
    IF i = 0 THEN segs ELSE [segs EXCEPT ![i].start = s.start, ![i].end = s.end]

\* exactly one gesture is attached and no other user event has reached the
\* editor since its mousedown
OneGesture == Len(docListeners) + Len(winListeners) = 1 /\ gesture.phase = "down"

\* C21: while one gesture is attached and nothing else writes, the collection after a mousemove tick
\* at x is the collection a single tick at x gives when the dragged segment is
\* at the gesture's snapshot, and a tick at the anchor x gives the segment the
\* snapshot's start and end.
C21_PathIndependence ==
    [][(MouseMoveStep /\ OneGesture) =>
        /\ \A n \in 1..Len(docListeners) :
              LET l == docListeners[n]
                  i == indexOf(captions, l.key)
              IN /\ captions' = handleMouseMove(l, mouseX',
                                    AtSnapshot(captions, i, l.startSegment))
                 /\ mouseX' = l.startPos =>
                        /\ captions'[i].start = l.startSegment.start
                        /\ captions'[i].end = l.startSegment.end
        /\ \A n \in 1..Len(winListeners) :
              LET l == winListeners[n]
                  i == indexOf(sceneSegments, l.key)
              IN /\ sceneSegments' = sceneMouseMove(l, mouseX',
                                    AtSnapshot(sceneSegments, i, l.startSegment))
                 /\ mouseX' = l.startMouseX =>
                        /\ sceneSegments'[i].start = l.startSegment.start
                        /\ sceneSegments'[i].end = l.startSegment.end
      ]_vars

\* C21 witness: the second tick of a gesture has brought the pointer back to
\* the anchor after a tick that moved the segment.
C21_Witness ==
    /\ OneGesture
    /\ budget.moves = 0
    /\ dirty
    /\ \/ \E n \in 1..Len(docListeners) : mouseX = docListeners[n].startPos
       \/ \E n \in 1..Len(winListeners) : mouseX = winListeners[n].startMouseX

\* the segment objects of a collection in their order
KeyOrder(segs) == [i \in 1..Len(segs) |-> segs[i].key]

\* C22: a mousemove tick leaves the order of both collections as it was, and
\* while one gesture is attached and nothing else writes, the tick finds the
\* dragged segment at the index it had before: a caption at the same
\* findIndex, a scene segment at the index recorded at its mousedown.
C22_NoReSortMidGesture ==
    [][MouseMoveStep =>
        /\ KeyOrder(captions') = KeyOrder(captions)
        /\ KeyOrder(sceneSegments') = KeyOrder(sceneSegments)
        /\ OneGesture =>
              /\ \A n \in 1..Len(docListeners) :
                    findIndex(captions', docListeners[n].id)
                        = findIndex(captions, docListeners[n].id)
              /\ \A n \in 1..Len(winListeners) :
                    indexOf(sceneSegments', winListeners[n].key) = dragState.index
      ]_vars

\* C22 witness: a tick of the gesture in progress has taken the start of the
\* dragged segment past the start of a later sibling.
C22_Witness ==
    /\ OneGesture
    /\ \/ \E n \in 1..Len(docListeners) :
             LET i == indexOf(captions, docListeners[n].key)
             IN i < Len(captions) /\ captions[i].start > captions[i + 1].start
       \/ \E n \in 1..Len(winListeners) :
             LET i == indexOf(sceneSegments, winListeners[n].key)
             IN i < Len(sceneSegments)
                /\ sceneSegments[i].start > sceneSegments[i + 1].start

\* the gestures attached whose segment is no longer in its collection
StaleCaptionGestures == {n \in 1..Len(docListeners) : indexOf(captions, docListeners[n].key) = 0}
StaleSceneGestures == {n \in 1..Len(winListeners) : indexOf(sceneSegments, winListeners[n].key) = 0}

\* no gesture is attached and nothing is dragging
GestureTerminated ==
    /\ docListeners = <<>> /\ winListeners = <<>>
    /\ dragState.type = "idle"
    /\ \A k \in Keys : view[k].isDragging = "null"

\* C23: a mousemove tick that arrives while the segment of the one attached
\* gesture is no longer in its collection writes nothing to the store and
\* leaves the gesture terminated.
C23_StaleReference ==
    [][(/\ MouseMoveStep
        /\ available
        /\ Len(docListeners) + Len(winListeners) = 1
        /\ StaleCaptionGestures \cup StaleSceneGestures # {})
          => (store' = store /\ GestureTerminated')
      ]_vars

\* C24: a mousemove tick that arrives while a gesture is attached and the
\* collections are not available writes nothing to the store and leaves the
\* gesture terminated.
C24_StoreUnavailableMidDrag ==
    [][(/\ MouseMoveStep
        /\ ~available
        /\ Len(docListeners) + Len(winListeners) = 1)
          => (store' = store /\ GestureTerminated')
      ]_vars

\* the steps of Next that deliver a key event to the text input of k
InputKeyStep(k) ==
    \/ \E key \in {"Enter", "Escape", "a"}, blur \in BOOLEAN : InputKeyDown(k, key, blur)
    \/ InputKeyUp(k)
    \/ InputKeyPress(k)

\* C25: no keydown, keyup or keypress delivered to the text input of an
\* editing caption view, Enter and Escape included, reaches the global
\* shortcut handlers.
C25_KeyboardCapture ==
    [][\A k \in Keys : (view[k].isEditing /\ InputKeyStep(k)) => lastKey' = "captured"]_vars

\* C25 witness: a key event was stopped at the text input of a view that is
\* editing with typed text in its buffer.
C25_Witness ==
    /\ lastKey = "captured"
    /\ \E k \in Keys : view[k].isEditing /\ view[k].editText \in TypedTexts

\* the kinds of gesture the hit zones allow for a pointer-down at clientX x
\* on a segment, the edge zones being zone pixels wide: the resize of the one
\* edge zone the pointer is in, either resize where the two zones overlap,
\* the move outside both
ZoneKinds(seg, x, zone, kinds) ==
    LET rel == x * secsPerPixel - seg.start
        inStart == rel < zone * secsPerPixel
        inEnd == rel > (seg.end - seg.start) - zone * secsPerPixel
    IN IF inStart /\ inEnd THEN {kinds[1], kinds[2]}
       ELSE IF inStart THEN {kinds[1]}
       ELSE IF inEnd THEN {kinds[2]}
       ELSE {kinds[3]}

\* C26: a mousedown that starts a gesture attaches one gesture; on a scene
\* segment dragState gets the kind of the 10 px edge zone the pointer is in,
\* or moving in the interior; on a caption the gesture has the kind of the
\* handle under the pointer, or is a move on the body.
C26_HitZones ==
    [][budget'.downs < budget.downs =>
        /\ Len(winListeners') > Len(winListeners) =>
              LET l == winListeners'[Len(winListeners')]
              IN dragState'.type \in
                    ZoneKinds(l.startSegment, mouseX', edgeThreshold,
                              <<"resizing-start", "resizing-end", "moving">>)
        /\ Len(docListeners') > Len(docListeners) =>
              LET l == docListeners'[Len(docListeners')]
              IN /\ l.type \in ZoneKinds(l.startSegment, mouseX', HandleWidth,
                                         <<"start", "end", "move">>)
                 /\ view'[l.key].isDragging = l.type
        /\ Len(winListeners') + Len(docListeners')
              = Len(winListeners) + Len(docListeners) + 1
      ]_vars

\* C26 witness: a mousedown in the end zone of a scene segment, outside its
\* start zone, has started a resizing-end gesture.
C26_Witness ==
    /\ gesture.phase = "down" /\ gesture.track = "scene"
    /\ dragState.type = "resizing-end"
    /\ mouseX * secsPerPixel - dragState.startSegment.start >= edgeThreshold * secsPerPixel

\* C27: every redraw request is emitted by a timer firing and carries the
\* frame index floor(playbackTime * FPS) of the playhead time at the firing,
\* with the frame rate and the output size.
C27_FrameIndexOfRedraw ==
    [][/\ TimerFire => emitted' = [frame_number |-> (playbackTime * FPS) \div 10,
                                   fps |-> FPS, resolution_base |-> OUTPUT_SIZE]
       /\ emitted' # emitted => pending' = pending - 1
      ]_vars

\* C27 witness: a redraw was requested for the frame of a playhead that had
\* left the time 0 of the mount.
C27_Witness ==
    /\ emitted.frame_number = 9 * FPS
    /\ playbackTime = 90

\* the segments of a collection other than the one with key k, and every field
\* of that one except its start and end, are in t what they are in s
FrameOf(s, t, k) ==
    /\ Len(t) = Len(s)
    /\ \A i \in 1..Len(s) :
          IF s[i].key # k THEN t[i] = s[i]
          ELSE t[i] = [s[i] EXCEPT !.start = t[i].start, !.end = t[i].end]

\* C30: while one gesture is attached and nothing else writes, a mousemove
\* tick leaves the other collection, every segment other than the dragged one
\* and the dragged segment's id, text and mode as they were; a tick of a start
\* resize leaves its end and a tick of an end resize leaves its start.
C30_DragFrame ==
    [][(MouseMoveStep /\ OneGesture) =>
        /\ \A n \in 1..Len(docListeners) :
              LET l == docListeners[n]
                  i == indexOf(captions, l.key)
              IN /\ sceneSegments' = sceneSegments
                 /\ FrameOf(captions, captions', l.key)
                 /\ l.type = "start" => captions'[i].end = captions[i].end
                 /\ l.type = "end" => captions'[i].start = captions[i].start
        /\ \A n \in 1..Len(winListeners) :
              LET l == winListeners[n]
                  i == indexOf(sceneSegments, l.key)
              IN /\ captions' = captions
                 /\ FrameOf(sceneSegments, sceneSegments', l.key)
                 /\ dragState.type = "resizing-start" =>
                        sceneSegments'[i].end = sceneSegments[i].end
                 /\ dragState.type = "resizing-end" =>
                        sceneSegments'[i].start = sceneSegments[i].start
      ]_vars

\* an absolute difference below 2^(-ToleranceBits) is within tolerance
ToleranceBits == 40

\* the layout in hand was made with a positive secsPerPixel and its left edge
\* has been converted back
RoundTripDone == layout.phase = "time" /\ layout.secsPerPixel > 0

\* C28 as stated: with a positive secsPerPixel the left edge of the element is
\* timeToPixel(start), its width is (end - start) / secsPerPixel, and
\* pixelToTime of the left edge is exactly start.
C28_ViewportRoundTripExact ==
    RoundTripDone =>
        /\ layout.left = timeToPixel(layout.segment.start, layout.position, layout.secsPerPixel)
        /\ layout.width = Div(FromInt(layout.segment.end - layout.segment.start),
                              layout.secsPerPixel)
        /\ layout.time = FromInt(layout.segment.start)

\* C28: with a positive secsPerPixel the left edge of the element is
\* timeToPixel(start), its width is (end - start) / secsPerPixel within
\* floating-point tolerance (exactly on the caption track), and pixelToTime of
\* the left edge is start within floating-point tolerance.
C28_ViewportRoundTrip ==
    RoundTripDone =>
        /\ layout.left = timeToPixel(layout.segment.start, layout.position, layout.secsPerPixel)
        /\ Within(layout.width,
                  Div(FromInt(layout.segment.end - layout.segment.start),
                      layout.secsPerPixel), ToleranceBits)
        /\ layout.track = "caption" =>
              layout.width = Div(FromInt(layout.segment.end - layout.segment.start),
                                 layout.secsPerPixel)
        /\ Within(layout.time, FromInt(layout.segment.start), ToleranceBits)

\* C28 witness: a left edge away from a position other than 0 has been
\* converted back to a time that is not the start it came from.
C28_Witness ==
    /\ RoundTripDone
    /\ layout.position # 0
    /\ layout.left # Zero
    /\ layout.time # FromInt(layout.segment.start)

\* C29: with a secsPerPixel of 0 or less the left edge and the width of the
\* element are finite, the width is positive and the left edge is on the side
\* of 0 on which start is of position.
C29_ZeroWidthTolerance ==
    (layout.phase # "input" /\ layout.phase # "none" /\ layout.secsPerPixel <= 0) =>
        /\ layout.left.kind = "finite"
        /\ layout.width.kind = "finite"
        /\ Positive(layout.width)
        /\ layout.segment.start > layout.position => Positive(layout.left)
        /\ layout.segment.start < layout.position => Positive(Neg(layout.left))

\* the steps of Next in which the component k runs saveEdit: Enter in the text
\* input, blur, and Escape when blur is delivered to the input it removes
SaveEditStep(k) ==
    /\ view[k].isEditing
    /\ \/ CommitStep(k)
       \/ InputKeyDown(k, "Escape", TRUE)

\* t is s but for the text of the segment at index i, which is txt (i = 0:
\* t is s)
TextFrame(s, t, i, txt) ==
    /\ Len(t) = Len(s)
    /\ \A j \in 1..Len(s) :
          t[j] = IF j = i THEN [s[j] EXCEPT !.text = txt] ELSE s[j]

\* C31: a saveEdit leaves the scene segments alone and changes, in the
\* captions, only the text of the first caption that has the id of the
\* edited one, which becomes the edit buffer; when the edited caption has
\* been removed and no other has its id, or the collection is not there,
\* nothing is written.
C31_TextCommitFrame ==
    [][\A k \in Keys :
          /\ SaveEditStep(k) =>
                LET id == captions[indexOf(captions, k)].id
                    i == IF available THEN findIndex(captions, id) ELSE 0
                IN /\ TextFrame(captions, captions', i, view[k].editText)
                   /\ sceneSegments' = sceneSegments
          /\ \A blur \in BOOLEAN :
                DeleteEditedCaption(k, blur) =>
                    LET removed == RemoveAt(captions, indexOf(captions, k))
                        id == captions[indexOf(captions, k)].id
                        i == IF blur THEN findIndex(removed, id) ELSE 0
                    IN /\ TextFrame(removed, captions', i, view[k].editText)
                       /\ sceneSegments' = sceneSegments
                       /\ i = 0 => dirty' = dirty
      ]_vars

\* C31 witness: of two captions with the same id one has the committed text
\* and the other the text it was added with, and no view is editing.
C31_Witness ==
    /\ Len(captions) = 2
    /\ captions[1].id = captions[2].id
    /\ captions[1].text \in TypedTexts
    /\ captions[2].text = "New caption"
    /\ \A k \in Keys : ~view[k].isEditing

\* C32: a caption gesture starts only on a caption whose view is not editing
\* (a pointer-down on one that is editing attaches no listener, sets no
\* isDragging and leaves the selection), and a mousemove with no listener
\* attached changes no segment.
C32_NoDragWhileEditing ==
    [][/\ Len(docListeners') > Len(docListeners) =>
              ~view[docListeners'[Len(docListeners')].key].isEditing
       /\ \A k \in Keys :
              (view[k].isEditing /\ view[k].isDragging = "null") =>
                  view'[k].isDragging = "null"
       /\ (MouseMoveStep /\ docListeners = <<>> /\ winListeners = <<>>) =>
              /\ captions' = captions
              /\ sceneSegments' = sceneSegments
      ]_vars

\* C32 witness: a view is editing with no gesture attached and a pointer-down
\* can land on its caption.
C32_Witness ==
    /\ docListeners = <<>> /\ winListeners = <<>>
    /\ budget.downs > 0 /\ budget.moves > 0
    /\ pending < MaxTimers
    /\ \E k \in Keys :
          /\ view[k].isEditing
          /\ indexOf(captions, k) # 0
          /\ DownXs(captions[indexOf(captions, k)]) # {}

\* C33: after a caption gesture with a mousemove tick (mousedown, mousemove,
\* mouseup) and the click that follows it on the same caption, the view of
\* the caption is not editing.
C33_DragDoesNotOpenEditor ==
    (gesture.phase = "clicked" /\ gesture.track = "caption" /\ gesture.moved) =>
        ~view[gesture.key].isEditing

\* C34: at most one mouseup listener registered by a pointer-down on the
\* scene track element is pending (a mouseup over the track runs every one of
\* them, and handleUpdatePlayhead with each).
C34_TrackListenerLifecycle == trackListeners <= 1

\* C35: a pointer-down on a scene segment at offset x from its left edge
\* starts resizing-start when x is less than 10 px, otherwise resizing-end
\* when x is more than the width minus 10 px, otherwise moving; in the overlap
\* of the two zones resizing-start is chosen, and moving is chosen only on a
\* segment at least 20 px wide.
C35_HitZonePrecedence ==
    [][(budget'.downs < budget.downs /\ Len(winListeners') > Len(winListeners)) =>
        LET l == winListeners'[Len(winListeners')]
            x == mouseX' * secsPerPixel - l.startSegment.start
            w == l.startSegment.end - l.startSegment.start
            zone == edgeThreshold * secsPerPixel
        IN /\ x < zone => dragState'.type = "resizing-start"
           /\ (x >= zone /\ x > w - zone) => dragState'.type = "resizing-end"
           /\ (x >= zone /\ x <= w - zone) => dragState'.type = "moving"
           /\ dragState'.type = "moving" => w >= 2 * zone
      ]_vars

\* C35 witness: a pointer-down inside both edge zones of a scene segment
\* narrower than 20 px has started a resizing-start gesture.
C35_Witness ==
    /\ gesture.phase = "down" /\ gesture.track = "scene"
    /\ dragState.type = "resizing-start"
    /\ LET x == mouseX * secsPerPixel - dragState.startSegment.start
           w == dragState.startSegment.end - dragState.startSegment.start
       IN /\ x < edgeThreshold * secsPerPixel
          /\ x > w - edgeThreshold * secsPerPixel
          /\ w < 2 * edgeThreshold * secsPerPixel

\* C36: every change of the scene track's dragState is passed to
\* onDragStateChanged: once a state was passed, the last one passed is the
\* current dragState, and the states passed alternate between a gesture
\* state and idle.
C36_DragStateNotification ==
    /\ reported = NoReport => dragState = IdleDrag
    /\ reported # NoReport => reported.state = dragState
    /\ reported.before # "none" =>
          (reported.before = "idle") # (reported.state.type = "idle")

\* C37: an export request made while isExporting holds calls neither the save
\* dialog nor the backend export function and changes nothing of the
\* component, and at most one export call is in flight at any time.
C37_ExportMutualExclusion ==
    [][/\ (budget'.events < budget.events /\ exporter.isExporting) =>
              exporter' = exporter
       /\ Len(exporter'.calls) <= 1
       /\ exporter'.calls # <<>> => exporter'.isExporting
      ]_vars

\* C37 witness: two requests were made, the second while the first export
\* waits for the backend after its save dialog returned a path.
C37_Witness ==
    /\ budget.events = MaxEvents - 2
    /\ Len(exporter.calls) = 1
    /\ exporter.calls[1].fn = "exportCaptions"
    /\ exporter.calls[1].awaits = "exportFunction"
    /\ exporter.toast.kind = "none"

====
